---- MODULE Spec2Model ----
(***************************************************************************)
(* Model of the SerialMouse driver (SerialMouse.hpp / SerialMouse.cpp).    *)
(*                                                                         *)
(* State: the serial port behind the provider (ownership, line-active      *)
(* flag, the four line parameters), the driver's members (serialStream,    *)
(* pollThread), the kernel threads running pollMouseThread, and the        *)
(* position of the caller's thread inside probe()/start().  Every call     *)
(* the driver makes on the serial stream is one step whose result          *)
(* (success or an error status) is chosen by the transport.                *)
(***************************************************************************)
EXTENDS Integers, Sequences, FiniteSets, TLC

(* ------------------------------ bounds -------------------------------- *)
\* Number of probe()/start()/stop() invocations in one run.
MaxCalls == 3
\* Reads of the polling loop that the history variables follow.
MaxReads == 3
\* Decode inputs: bytes 1 and 2 range over the values whose low six bits
\* are within MaxLow of 0 or of 63, with every combination of bits 6 and 7.
MaxLow == 1

(* ------------------------ constants of the header --------------------- *)
\* "#define bits <<1"
bits(n) == n * 2
MOUSE_DATA_RATE == bits(1200)
MOUSE_DATA_SIZE == bits(7)
MOUSE_STOP_BITS == bits(1)
\* Control-line flags are kept symbolic: a flow-control word is the set of
\* the flags that are set in it, 0 is the empty set.
PD_RS232_S_RTS == "RTS"
PD_RS232_S_DTR == "DTR"
MOUSE_FLOW_CONTROL == {PD_RS232_S_RTS, PD_RS232_S_DTR}
MOUSE_ID_DELAY_MS == 100
MOUSE_ID_BYTE == 77
HID_MOUSE_LEFTB == 1
HID_MOUSE_RIGHTB == 2
MOUSE_PACKET_LENGTH == 3
MOUSE_PACKET_HEADER_BIT == 64
MOUSE_PACKET_LEFTB_BIT == 32
MOUSE_PACKET_RIGHTB_BIT == 16

kIOReturnSuccess == "kIOReturnSuccess"
kIOReturnInvalid == "kIOReturnInvalid"
\* Any status other than success that a call on the serial stream returns.
kIOReturnError == "kIOReturnError"

(* ------------------------- bit operations ----------------------------- *)
RECURSIVE BitAnd(_, _)
BitAnd(a, b) ==
    IF a = 0 \/ b = 0 THEN 0
    ELSE 2 * BitAnd(a \div 2, b \div 2) + (IF a % 2 = 1 /\ b % 2 = 1 THEN 1 ELSE 0)

RECURSIVE BitOr(_, _)
BitOr(a, b) ==
    IF a = 0 THEN b
    ELSE IF b = 0 THEN a
    ELSE 2 * BitOr(a \div 2, b \div 2) + (IF a % 2 = 1 \/ b % 2 = 1 THEN 1 ELSE 0)

RECURSIVE ShiftLeft(_, _)
ShiftLeft(a, n) == IF n = 0 THEN a ELSE ShiftLeft(2 * a, n - 1)

\* The (SInt8) cast of an int: keep the low eight bits, bit 7 is the sign.
SInt8(v) == IF v % 256 >= 128 THEN (v % 256) - 256 ELSE v % 256

(* --------------------------- packet macros ---------------------------- *)
\* Mutant: the header test looks at bit 7 instead of bit 6.
ValidTestsBit7(packet) == BitAnd(packet[1], 128) # 0

MOUSE_PACKET_VALID(packet) == BitAnd(packet[1], MOUSE_PACKET_HEADER_BIT) # 0

\* Mutant: the left button is read from the right button's bit.
LeftbTestsRightBit(packet) == BitAnd(packet[1], MOUSE_PACKET_RIGHTB_BIT) # 0

MOUSE_PACKET_LEFTB(packet) == BitAnd(packet[1], MOUSE_PACKET_LEFTB_BIT) # 0

MOUSE_PACKET_RIGHTB(packet) == BitAnd(packet[1], MOUSE_PACKET_RIGHTB_BIT) # 0

MOUSE_PACKET_BUTTONS(packet) ==
    BitOr(IF MOUSE_PACKET_LEFTB(packet) THEN HID_MOUSE_LEFTB ELSE 0,
          IF MOUSE_PACKET_RIGHTB(packet) THEN HID_MOUSE_RIGHTB ELSE 0)

\* Mutant: the X delta is cast to an unsigned byte.
PosXUnsigned(packet) ==
    BitOr(BitAnd(packet[2], 63), ShiftLeft(BitAnd(packet[1], 3), 6)) % 256

MOUSE_PACKET_POSX(packet) ==
    SInt8(BitOr(BitAnd(packet[2], 63), ShiftLeft(BitAnd(packet[1], 3), 6)))

\* Mutant: the Y delta keeps bit 6 of byte 2.
PosYKeepsBit6(packet) ==
    SInt8(BitOr(BitAnd(packet[3], 127), ShiftLeft(BitAnd(packet[1], 12), 4)))

MOUSE_PACKET_POSY(packet) ==
    SInt8(BitOr(BitAnd(packet[3], 63), ShiftLeft(BitAnd(packet[1], 12), 4)))

(* ------------------------ the serial stream --------------------------- *)
\* What the provider is asked to do, in the order the calls are issued by
\* the current (or most recent) probe()/start()/stop() invocation.  num is
\* the numeric argument (for dequeueData the count it reported), flags the
\* flow-control argument, data the bytes a read delivered.  The IOSleep()
\* before the identification read is recorded at its place among them.
OpRead(method, ev, num, flags, ok, data) ==
    [method |-> method, ev |-> ev, num |-> num, flags |-> flags, ok |-> ok,
     data |-> data]

Op(method, ev, num, flags, ok) == OpRead(method, ev, num, flags, ok, <<>>)

ZeroCfg == [rate |-> 0, size |-> 0, stop |-> 0, flow |-> {}]

MouseCfg ==
    [rate |-> MOUSE_DATA_RATE, size |-> MOUSE_DATA_SIZE,
     stop |-> MOUSE_STOP_BITS, flow |-> MOUSE_FLOW_CONTROL]

\* Line configurations the port may have when the driver first sees it.
InitCfgs ==
    { [rate |-> bits(9600), size |-> bits(8), stop |-> bits(2), flow |-> {"CTS"}],
      [rate |-> bits(19200), size |-> bits(7), stop |-> bits(1), flow |-> {PD_RS232_S_DTR}] }

\* Mutant: the stop bits are handled before the data size.
SettingEventStopFirst(i) ==
    CASE i = 1 -> "PD_E_DATA_RATE"
      [] i = 2 -> "PD_RS232_E_STOP_BITS"
      [] i = 3 -> "PD_E_DATA_SIZE"
      [] OTHER -> "PD_E_FLOW_CONTROL"

\* Line parameters in the order get/setPortSettings walk them.
SettingEvent(i) ==
    CASE i = 1 -> "PD_E_DATA_RATE"
      [] i = 2 -> "PD_E_DATA_SIZE"
      [] i = 3 -> "PD_RS232_E_STOP_BITS"
      [] OTHER -> "PD_E_FLOW_CONTROL"

\* The configuration cfg with its i-th parameter taken from src.
WithSetting(cfg, i, src) ==
    CASE i = 1 -> [cfg EXCEPT !.rate = src.rate]
      [] i = 2 -> [cfg EXCEPT !.size = src.size]
      [] i = 3 -> [cfg EXCEPT !.stop = src.stop]
      [] OTHER -> [cfg EXCEPT !.flow = src.flow]

SettingOp(method, i, src, ok) ==
    Op(method, SettingEvent(i), IF i = 1 THEN src.rate ELSE IF i = 2 THEN src.size
                                 ELSE IF i = 3 THEN src.stop ELSE 0,
       IF i = 4 THEN src.flow ELSE {}, ok)

\* Identification bytes a device may answer with.
IdBytes == {MOUSE_ID_BYTE, 0, 72}

\* Chunks the polling loop may be handed by a full read.
PollPackets ==
    { <<66, 1, 2>>, <<64, 1, 2>>, <<2, 1, 2>>, <<191, 255, 255>>,
      <<127, 63, 128>>, <<96, 0, 0>>, <<80, 0, 0>> }

NoPacket == <<0, 0, 0>>

(* ------------------------------ state --------------------------------- *)
VARIABLES
    port,         \* the serial port: owner, line-active flag, line parameters
    serialStream, \* SerialMouse::serialStream
    pollThread,   \* SerialMouse::pollThread: 0 (NULL) or a thread id
    threads,      \* kernel threads created for pollMouseThread, by id
    call,         \* where the caller's thread is inside probe()/start()
    ops,          \* serial-stream calls issued by the current/last invocation
    result,       \* what the last returned invocation returned
    entry,        \* the port and the running threads when it was entered
    calls,        \* invocations so far
    panicked,     \* the kernel went down on a use of a freed thread
    reads,        \* history: what each dequeueData of the polling loop returned
    sink          \* history: the flushes and HID events the polling loop issued

vars == <<port, serialStream, pollThread, threads, call, ops, result, entry,
          calls, panicked, reads, sink>>

Idle == [fn |-> "idle", phase |-> "none", i |-> 0, orig |-> ZeroCfg,
         ret |-> "NULL", id |-> "none"]

NoResult == [fn |-> "none", ret |-> "none", id |-> "none"]

\* A thread that has just been created on pollMouseThread.
NewThread ==
    [state |-> "run", ref |-> TRUE, pc |-> "read", st |-> "none", count |-> 0,
     packet |-> NoPacket, out |-> <<>>]

Running == {w \in 1..Len(threads) : threads[w].state = "run"}

Snapshot ==
    [port |-> port, running |-> Running, pollThread |-> pollThread,
     nthreads |-> Len(threads)]

Init ==
    /\ port \in [owner : {"none"}, active : {FALSE}, cfg : InitCfgs]
    /\ serialStream = "null"
    /\ pollThread = 0
    /\ threads = <<>>
    /\ call = Idle
    /\ ops = <<>>
    /\ result = NoResult
    /\ entry = [port |-> port, running |-> {}, pollThread |-> 0, nthreads |-> 0]
    /\ calls = 0
    /\ panicked = FALSE
    /\ reads = <<>>
    /\ sink = <<>>

(* ------------------- control flow of probe() and start() -------------- *)
\* "goto fail": probe() falls through to done (restore, then release) with
\* returnService = NULL; start() releases the port and returns false.
GotoFail(c) ==
    IF c.fn = "probe"
    THEN [c EXCEPT !.phase = "restore", !.i = 1, !.ret = "NULL"]
    ELSE [c EXCEPT !.phase = "release", !.i = 1]

\* The detection succeeded: probe() sets returnService = this and goes to
\* done; start() goes on to create the polling thread.
Detected(c) ==
    IF c.fn = "probe"
    THEN [c EXCEPT !.phase = "restore", !.i = 1, !.ret = "this"]
    ELSE [c EXCEPT !.phase = "spawn", !.i = 1]

\* What the invocation returns once releasePort() has come back.
Returned(c) ==
    [fn |-> c.fn, ret |-> IF c.fn = "probe" THEN c.ret ELSE "false", id |-> c.id]

(* ------------------------------ probe() ------------------------------- *)
\* probe() is entered; super::probe() decides whether it goes on.
Probe ==
    /\ ~panicked
    /\ call.fn = "idle"
    /\ calls < MaxCalls
    /\ calls' = calls + 1
    /\ ops' = <<>>
    /\ entry' = Snapshot
    /\ \E super \in BOOLEAN :
         IF super
         THEN /\ call' = [Idle EXCEPT !.fn = "probe", !.phase = "acquire", !.i = 1]
              /\ result' = NoResult
         ELSE /\ call' = Idle
              /\ result' = [fn |-> "probe", ret |-> "NULL", id |-> "none"]
    /\ UNCHANGED <<reads, sink, port, serialStream, pollThread, threads, panicked>>

(* ------------------------------ start() ------------------------------- *)
\* start() is entered; after super::start() it stores the provider.
Start ==
    /\ ~panicked
    /\ call.fn = "idle"
    /\ calls < MaxCalls
    /\ calls' = calls + 1
    /\ ops' = <<>>
    /\ entry' = Snapshot
    /\ \E super \in BOOLEAN :
         IF super
         THEN /\ call' = [Idle EXCEPT !.fn = "start", !.phase = "acquire", !.i = 1]
              /\ result' = NoResult
              /\ serialStream' = "provider"
         ELSE /\ call' = Idle
              /\ result' = [fn |-> "start", ret |-> "false", id |-> "none"]
              /\ serialStream' = serialStream
    /\ UNCHANGED <<reads, sink, port, pollThread, threads, panicked>>

\* kernel_thread_start() in start(): on success the new thread runs
\* pollMouseThread and start() returns true, otherwise goto fail.
StartPollThread ==
    /\ ~panicked
    /\ call.fn = "start" /\ call.phase = "spawn"
    /\ \E ok \in BOOLEAN :
         IF ok
         THEN /\ threads' = Append(threads, NewThread)
              /\ pollThread' = Len(threads) + 1
              /\ call' = Idle
              /\ result' = [fn |-> "start", ret |-> "true", id |-> call.id]
         ELSE /\ call' = GotoFail(call)
              /\ UNCHANGED <<threads, pollThread, result>>
    /\ UNCHANGED <<reads, sink, port, serialStream, ops, entry, calls, panicked>>

(* --------------------------- acquirePort() ---------------------------- *)
\* serialStream->acquirePort(false): granted only when nobody holds the port.
AcquirePort ==
    /\ ~panicked
    /\ call.phase = "acquire"
    /\ \E ok \in (IF port.owner = "none" THEN BOOLEAN ELSE {FALSE}) :
         /\ port' = IF ok THEN [port EXCEPT !.owner = "driver"] ELSE port
         /\ ops' = Append(ops, Op("acquirePort", "none", 0, {}, ok))
         /\ call' = IF ~ok THEN GotoFail(call)
                    ELSE IF call.fn = "probe"
                         THEN [call EXCEPT !.phase = "get", !.i = 1]
                         ELSE [call EXCEPT !.phase = "setup", !.i = 1]
    /\ UNCHANGED <<reads, sink, serialStream, pollThread, threads, result, entry, calls, panicked>>

(* ------------------------- getPortSettings() -------------------------- *)
\* The i-th requestEvent(): on success the caller's variable receives the
\* port's value, on failure getPortSettings() returns at once.
GetPortSettings ==
    /\ ~panicked
    /\ call.phase = "get"
    /\ \E ok \in BOOLEAN :
         /\ ops' = Append(ops, Op("requestEvent", SettingEvent(call.i), 0, {}, ok))
         /\ call' = IF ~ok THEN GotoFail(call)
                    ELSE IF call.i < 4
                         THEN [call EXCEPT !.orig = WithSetting(call.orig, call.i, port.cfg),
                                           !.i = call.i + 1]
                         ELSE [call EXCEPT !.orig = WithSetting(call.orig, call.i, port.cfg),
                                           !.phase = "setup", !.i = 1]
    /\ UNCHANGED <<reads, sink, port, serialStream, pollThread, threads, result, entry, calls, panicked>>

(* ------------------------- setPortSettings() -------------------------- *)
\* The i-th executeEvent() of setPortSettings(), called from setupPort()
\* with the mouse's settings or from probe()'s done: with the saved ones.
\* On failure it returns at once; probe() ignores the status at done:.
SetPortSettings ==
    /\ ~panicked
    /\ call.phase \in {"setup", "restore"}
    /\ call.i <= 4
    /\ LET src == IF call.phase = "setup" THEN MouseCfg ELSE call.orig IN
       \E ok \in BOOLEAN :
         /\ port' = IF ok THEN [port EXCEPT !.cfg = WithSetting(port.cfg, call.i, src)]
                    ELSE port
         /\ ops' = Append(ops, SettingOp("executeEvent", call.i, src, ok))
         /\ call' = IF call.phase = "setup"
                    THEN (IF ok THEN [call EXCEPT !.i = call.i + 1] ELSE GotoFail(call))
                    ELSE (IF ok /\ call.i < 4 THEN [call EXCEPT !.i = call.i + 1]
                          ELSE [call EXCEPT !.phase = "release", !.i = 1])
    /\ UNCHANGED <<reads, sink, serialStream, pollThread, threads, result, entry, calls, panicked>>

(* ----------------------------- setupPort() ---------------------------- *)
\* After setPortSettings() succeeded: executeEvent(PD_E_ACTIVE, true).
SetupPort ==
    /\ ~panicked
    /\ call.phase = "setup"
    /\ call.i = 5
    /\ \E ok \in BOOLEAN :
         /\ port' = IF ok THEN [port EXCEPT !.active = TRUE] ELSE port
         /\ ops' = Append(ops, Op("executeEvent", "PD_E_ACTIVE", 1, {}, ok))
         /\ call' = IF ok THEN [call EXCEPT !.phase = "id", !.i = 1] ELSE GotoFail(call)
    /\ UNCHANGED <<reads, sink, serialStream, pollThread, threads, result, entry, calls, panicked>>

(* ---------------------------- checkMouseId() -------------------------- *)
\* Mutant: DTR is never deasserted.
ToggleFlowKeepsDtr(i) == MOUSE_FLOW_CONTROL

\* The flow-control word written by the i-th call of checkMouseId (i = 2..4).
ToggleFlow(i) ==
    IF i = 3 THEN MOUSE_FLOW_CONTROL \ {PD_RS232_S_DTR} ELSE MOUSE_FLOW_CONTROL

\* Status of checkMouseId() after dequeueData(&mouseId, 1, &count, 0), where
\* mouseId was initialised to 0 and receives a byte only if one was read.
IdStatus(ok, count, byte) ==
    IF ~ok THEN kIOReturnError
    ELSE IF (IF count = 1 THEN byte ELSE 0) # MOUSE_ID_BYTE THEN kIOReturnInvalid
    ELSE kIOReturnSuccess

\* Calls 1..4: flush the receive queue, then the DTR toggle; each failure
\* returns at once.
CheckMouseIdToggle ==
    /\ ~panicked
    /\ call.phase = "id"
    /\ call.i <= 4
    /\ \E ok \in BOOLEAN :
         /\ port' = IF ok /\ call.i > 1
                    THEN [port EXCEPT !.cfg.flow = ToggleFlow(call.i)]
                    ELSE port
         /\ ops' = Append(ops, IF call.i = 1
                               THEN Op("executeEvent", "PD_E_RXQ_FLUSH", 0, {}, ok)
                               ELSE Op("executeEvent", "PD_E_FLOW_CONTROL", 0,
                                       ToggleFlow(call.i), ok))
         /\ call' = IF ok THEN [call EXCEPT !.i = call.i + 1]
                    ELSE GotoFail([call EXCEPT !.id = kIOReturnError])
    /\ UNCHANGED <<reads, sink, serialStream, pollThread, threads, result, entry, calls, panicked>>

\* Call 5, after IOSleep(MOUSE_ID_DELAY_MS): read one byte without waiting
\* and compare it with MOUSE_ID_BYTE.
CheckMouseIdRead ==
    /\ ~panicked
    /\ call.phase = "id"
    /\ call.i = 5
    /\ \E ok \in BOOLEAN :
       \E count \in (IF ok THEN {0, 1} ELSE {0}) :
       \E byte \in (IF count = 1 THEN IdBytes ELSE {0}) :
         LET st == IdStatus(ok, count, byte) IN
         /\ ops' = ops \o <<Op("IOSleep", "none", MOUSE_ID_DELAY_MS, {}, TRUE),
                          OpRead("dequeueData", "none", count, {}, ok,
                                 IF count = 1 THEN <<byte>> ELSE <<>>)>>
         /\ call' = IF st = kIOReturnSuccess
                    THEN Detected([call EXCEPT !.id = st])
                    ELSE GotoFail([call EXCEPT !.id = st])
    /\ UNCHANGED <<reads, sink, port, serialStream, pollThread, threads, result, entry, calls, panicked>>

(* ---------------------------- releasePort() --------------------------- *)
\* executeEvent(PD_E_ACTIVE, false); if that fails releasePort() returns
\* its status without releasing.  Then serialStream->releasePort().  The
\* caller ignores the status and returns.
ReleasePort ==
    /\ ~panicked
    /\ call.phase = "release"
    /\ \E ok \in BOOLEAN :
         IF call.i = 1
         THEN /\ port' = IF ok THEN [port EXCEPT !.active = FALSE] ELSE port
              /\ ops' = Append(ops, Op("executeEvent", "PD_E_ACTIVE", 0, {}, ok))
              /\ IF ok
                 THEN /\ call' = [call EXCEPT !.i = 2]
                      /\ result' = result
                 ELSE /\ call' = Idle
                      /\ result' = Returned(call)
         ELSE /\ port' = IF ok THEN [port EXCEPT !.owner = "none"] ELSE port
              /\ ops' = Append(ops, Op("releasePort", "none", 0, {}, ok))
              /\ call' = Idle
              /\ result' = Returned(call)
    /\ UNCHANGED <<reads, sink, serialStream, pollThread, threads, entry, calls, panicked>>

(* ------------------------------- stop() ------------------------------- *)
\* A thread after it was terminated: its stack is gone, the driver's
\* reference to it is kept or dropped as the caller says.
Terminated(ref) == [NewThread EXCEPT !.state = "dead", !.ref = ref]

\* stop(): thread_terminate(pollThread), thread_deallocate(pollThread),
\* super::stop().  With pollThread NULL both kernel calls do nothing.  With
\* a handle whose reference stop() already dropped the thread structure is
\* freed memory: nothing happens, or a thread that reuses it is terminated,
\* or the kernel goes down.
Stop ==
    /\ ~panicked
    /\ call.fn = "idle"
    /\ calls < MaxCalls
    /\ calls' = calls + 1
    /\ ops' = <<>>
    /\ entry' = Snapshot
    /\ call' = Idle
    /\ result' = [fn |-> "stop", ret |-> "void", id |-> "none"]
    /\ IF pollThread = 0
       THEN UNCHANGED <<threads, panicked>>
       ELSE IF threads[pollThread].ref
       THEN /\ threads' = [threads EXCEPT ![pollThread] = Terminated(FALSE)]
            /\ panicked' = panicked
       ELSE \E victim \in Running \cup {0, -1} :
              /\ panicked' = (victim = -1)
              /\ threads' = IF victim > 0
                            THEN [threads EXCEPT ![victim] = Terminated(threads[victim].ref)]
                            ELSE threads
    /\ UNCHANGED <<reads, sink, port, serialStream, pollThread>>

(* -------------------------- pollMouseThread() ------------------------- *)
\* What dequeueData(packet, 3, &count, 3) may come back with: a full chunk,
\* a success with fewer bytes, or an error.
ReadOutcomes ==
    [st : {kIOReturnSuccess}, count : {MOUSE_PACKET_LENGTH}, packet : PollPackets]
    \cup [st : {kIOReturnSuccess}, count : 0..(MOUSE_PACKET_LENGTH - 1), packet : {NoPacket}]
    \cup [st : {kIOReturnError}, count : {0}, packet : {NoPacket}]

\* Calls the loop makes after a read: a flush of the receive queue, or an
\* event handed to the HID system.
FlushCall == [k |-> "flush", dx |-> 0, dy |-> 0, buttons |-> 0]

dispatchRelativePointerEvent(dx, dy, buttons) ==
    [k |-> "event", dx |-> dx, dy |-> dy, buttons |-> buttons]

\* Mutant: the else is missing, an invalid chunk is flushed and dispatched.
PollBodyNoElse(st, count, packet) ==
    IF st = kIOReturnSuccess /\ count = MOUSE_PACKET_LENGTH
    THEN (IF ~MOUSE_PACKET_VALID(packet) THEN <<FlushCall>> ELSE <<>>)
         \o <<dispatchRelativePointerEvent(MOUSE_PACKET_POSX(packet),
                                           MOUSE_PACKET_POSY(packet),
                                           MOUSE_PACKET_BUTTONS(packet))>>
    ELSE <<>>

\* Mutant: the count of the read is not looked at.
PollBodyIgnoresCount(st, count, packet) ==
    IF st = kIOReturnSuccess
    THEN IF BitAnd(packet[1], MOUSE_PACKET_HEADER_BIT) = 0
         THEN <<FlushCall>>
         ELSE <<dispatchRelativePointerEvent(MOUSE_PACKET_POSX(packet),
                                             MOUSE_PACKET_POSY(packet),
                                             MOUSE_PACKET_BUTTONS(packet))>>
    ELSE <<>>

\* The body of the loop after the read: nothing unless the read succeeded
\* with three bytes; then a flush if the header bit is missing, else the
\* decoded event.
PollBody(st, count, packet) ==
    IF st = kIOReturnSuccess /\ count = MOUSE_PACKET_LENGTH
    THEN IF ~MOUSE_PACKET_VALID(packet)
         THEN <<FlushCall>>
         ELSE <<dispatchRelativePointerEvent(MOUSE_PACKET_POSX(packet),
                                             MOUSE_PACKET_POSY(packet),
                                             MOUSE_PACKET_BUTTONS(packet))>>
    ELSE <<>>

\* The blocking read at the top of the loop returns r.
PollReadStep(w, r) ==
    /\ ~panicked
    /\ threads[w].state = "run"
    /\ threads[w].pc = "read"
    /\ threads' = [threads EXCEPT ![w] =
                      [@ EXCEPT !.pc = "got", !.st = r.st, !.count = r.count,
                                !.packet = r.packet, !.out = <<>>]]
    /\ UNCHANGED <<port, serialStream, pollThread, call, ops, result, entry,
                   calls, panicked>>

\* Mutant: the loop is left when the read reports an error.
PollHandleStepExitsOnError(w) ==
    /\ ~panicked
    /\ threads[w].state = "run"
    /\ threads[w].pc = "got"
    /\ LET t == threads[w] IN
       threads' = [threads EXCEPT ![w] =
                      IF t.st = kIOReturnSuccess
                      THEN [t EXCEPT !.pc = "read",
                                     !.out = PollBody(t.st, t.count, t.packet)]
                      ELSE [t EXCEPT !.state = "dead", !.out = <<>>]]
    /\ UNCHANGED <<port, serialStream, pollThread, call, ops, result, entry,
                   calls, panicked>>

\* The rest of the iteration; the loop then reads again.
PollHandleStep(w) ==
    /\ ~panicked
    /\ threads[w].state = "run"
    /\ threads[w].pc = "got"
    /\ LET t == threads[w] IN
       threads' = [threads EXCEPT ![w] =
                      [t EXCEPT !.pc = "read",
                                !.out = PollBody(t.st, t.count, t.packet)]]
    /\ UNCHANGED <<port, serialStream, pollThread, call, ops, result, entry,
                   calls, panicked>>

PollRead(w) ==
    /\ \E r \in ReadOutcomes : PollReadStep(w, r)
    /\ UNCHANGED <<reads, sink>>

PollHandle(w) ==
    /\ PollHandleStep(w)
    /\ UNCHANGED <<reads, sink>>

(* --------------------------- specification ---------------------------- *)
Next ==
    \/ Probe
    \/ Start
    \/ Stop
    \/ AcquirePort
    \/ GetPortSettings
    \/ SetPortSettings
    \/ SetupPort
    \/ CheckMouseIdToggle
    \/ CheckMouseIdRead
    \/ ReleasePort
    \/ StartPollThread
    \/ \E w \in 1..Len(threads) : PollRead(w)
    \/ \E w \in 1..Len(threads) : PollHandle(w)

Spec == Init /\ [][Next]_vars

TypeOK ==
    /\ port.owner \in {"none", "driver"}
    /\ port.active \in BOOLEAN
    /\ serialStream \in {"null", "provider"}
    /\ pollThread \in 0..Len(threads)
    /\ calls \in 0..MaxCalls
    /\ panicked \in BOOLEAN

(* --------------- the polling loop of a started driver ----------------- *)
\* The calls start() makes on the serial stream when every one succeeds.
StartedOps ==
    <<Op("acquirePort", "none", 0, {}, TRUE)>>
    \o [i \in 1..4 |-> SettingOp("executeEvent", i, MouseCfg, TRUE)]
    \o <<Op("executeEvent", "PD_E_ACTIVE", 1, {}, TRUE),
         Op("executeEvent", "PD_E_RXQ_FLUSH", 0, {}, TRUE)>>
    \o [i \in 1..3 |-> Op("executeEvent", "PD_E_FLOW_CONTROL", 0, ToggleFlow(i + 1), TRUE)]
    \o <<Op("IOSleep", "none", MOUSE_ID_DELAY_MS, {}, TRUE),
         OpRead("dequeueData", "none", 1, {}, TRUE, <<MOUSE_ID_BYTE>>)>>

\* The state in which the first start() on a fresh driver returns true,
\* with its polling thread as given.
StartedState(thread) ==
    /\ port = [owner |-> "driver", active |-> TRUE, cfg |-> MouseCfg]
    /\ serialStream = "provider"
    /\ pollThread = 1
    /\ threads = <<thread>>
    /\ call = Idle
    /\ ops = StartedOps
    /\ result = [fn |-> "start", ret |-> "true", id |-> kIOReturnSuccess]
    /\ entry \in [port : [owner : {"none"}, active : {FALSE}, cfg : InitCfgs],
                  running : {{}}, pollThread : {0}, nthreads : {0}]
    /\ calls = 1
    /\ panicked = FALSE

\* An entry of reads: what the read returned and how many flushes and
\* events had been issued before it returned.
ReadEntry(r, at) == [st |-> r.st, count |-> r.count, packet |-> r.packet, at |-> at]

\* The loop's steps with their history: each read result is appended to
\* reads, each flush or event to sink, in the order they happen.
LoggedPollRead(w) ==
    /\ Len(reads) < MaxReads
    /\ \E r \in ReadOutcomes :
         /\ PollReadStep(w, r)
         /\ reads' = Append(reads, ReadEntry(r, Len(sink)))
    /\ sink' = sink

LoggedPollHandle(w) ==
    /\ PollHandleStep(w)
    /\ reads' = reads
    /\ sink' = sink \o threads'[w].out

InitPoll ==
    /\ StartedState(NewThread)
    /\ reads = <<>>
    /\ sink = <<>>

NextPoll ==
    \/ \E w \in 1..Len(threads) : LoggedPollRead(w)
    \/ \E w \in 1..Len(threads) : LoggedPollHandle(w)
    \/ Stop

\* A started driver whose thread polls, followed through MaxReads reads.
SpecPoll == InitPoll /\ [][NextPoll]_vars

(* ------------------------ decoding one chunk -------------------------- *)
UInt8 == 0..255

\* Values of bytes 1 and 2 that are decoded: low six bits near 0 or 63.
DecodeBytes == {b \in UInt8 : b % 64 <= MaxLow \/ b % 64 >= 63 - MaxLow}

\* The loop holds a full chunk it has just read.
InitDecode ==
    \E b0 \in UInt8 : \E b1 \in DecodeBytes : \E b2 \in DecodeBytes :
       LET r == [st |-> kIOReturnSuccess, count |-> MOUSE_PACKET_LENGTH,
                 packet |-> <<b0, b1, b2>>] IN
       /\ StartedState([NewThread EXCEPT !.pc = "got", !.st = r.st,
                                         !.count = r.count, !.packet = r.packet])
       /\ reads = <<ReadEntry(r, 0)>>
       /\ sink = <<>>

NextDecode == \E w \in 1..Len(threads) : LoggedPollHandle(w)

\* One pass of the loop body over every chunk of the decode inputs.
SpecDecode == InitDecode /\ [][NextDecode]_vars

(* ------------------------------ claims -------------------------------- *)
\* The invocation fn has returned and no later one has been entered.
After(fn) == call.fn = "idle" /\ result.fn = fn

\* Positions in ops of the calls of one method of the serial stream.
Issued(method) == {i \in 1..Len(ops) : ops[i].method = method}

\* Positions in ops of the executeEvent calls for one event.
IssuedEvent(ev) ==
    {i \in 1..Len(ops) : ops[i].method = "executeEvent" /\ ops[i].ev = ev}

\* The invocation obtained the port from acquirePort().
AcquiredHere == Len(ops) > 0 /\ ops[1].method = "acquirePort" /\ ops[1].ok

\* The provider never refused a releasePort() call the invocation made.
ReleaseNotRefused == \A i \in Issued("releasePort") : ops[i].ok

\* C1: when stop() returns on a driver whose start had succeeded (the
\* thread in pollThread polling, the port owned), that thread is
\* terminated, ownership of the port was released by exactly one
\* releasePort call made by stop(), and the port is no longer owned.
C1_StopReleasesPort ==
    (/\ After("stop")
     /\ entry.port.owner = "driver"
     /\ entry.pollThread \in entry.running)
    => /\ threads[entry.pollThread].state = "dead"
       /\ Cardinality(Issued("releasePort")) = 1
       /\ port.owner = "none"

\* C2: when start() returns after it acquired the port and setupPort or
\* checkMouseId failed, ownership has been released by exactly one
\* releasePort call whatever the other calls on the failure path returned,
\* no polling thread was created, and start() returned false.
C2_StartFailureCleanup ==
    (/\ After("start")
     /\ AcquiredHere
     /\ result.id # kIOReturnSuccess
     /\ ReleaseNotRefused)
    => /\ Cardinality(Issued("releasePort")) = 1
       /\ port.owner = "none"
       /\ Len(threads) = entry.nthreads
       /\ result.ret = "false"

\* C3: when probe() returns, whatever its outcome, the four line
\* parameters of the port are what they were when probe() was entered.
C3_ProbeRestoresConfiguration ==
    After("probe") => port.cfg = entry.port.cfg

\* C4: when probe() returns after it acquired the port, the port is no
\* longer owned, whatever the restore and line-deactivate calls returned.
C4_ProbeNeverRetainsOwnership ==
    (After("probe") /\ AcquiredHere /\ ReleaseNotRefused) => port.owner = "none"

\* The identification read of the invocation, if it was issued and succeeded.
IdReads == {i \in Issued("dequeueData") : ops[i].ok}

\* C5: when start() returns after acquirePort and setupPort succeeded and
\* the identification read succeeded: if it delivered 0x4D (and the polling
\* thread could be created) start() returned true, the port is owned and
\* exactly one new thread polls; if it delivered another byte start()
\* returned false with checkMouseId's kIOReturnInvalid, the port is released
\* and no thread was created.
C5_StartEndToEnd ==
    (After("start") /\ AcquiredHere /\ ReleaseNotRefused)
    => \A i \in IdReads :
         /\ (ops[i].data = <<MOUSE_ID_BYTE>> /\ Len(threads) > entry.nthreads)
            => /\ result.ret = "true"
               /\ port.owner = "driver"
               /\ Len(threads) = entry.nthreads + 1
               /\ pollThread = Len(threads)
               /\ threads[pollThread].state = "run"
         /\ (ops[i].data # <<>> /\ ops[i].data # <<MOUSE_ID_BYTE>>)
            => /\ result.ret = "false"
               /\ result.id = kIOReturnInvalid
               /\ port.owner = "none"
               /\ Len(threads) = entry.nthreads

(* ---------------- claims about the polling loop ------------------------ *)
\* Bit k of v.
Bit(v, k) == (v \div (2 ^ k)) % 2

\* The read returned success with three bytes.
Full(r) == r.st = kIOReturnSuccess /\ r.count = 3

IsEvent(e) == e.k = "event"

IsFlush(e) == e.k = "flush"

\* The flushes and events issued after read i returned and before the next
\* read returned.
Segment(i) ==
    SubSeq(sink, reads[i].at + 1,
           IF i < Len(reads) THEN reads[i + 1].at ELSE Len(sink))

\* The loop body has run to its end for read i.
Completed(i) ==
    i < Len(reads) \/ (threads[1].state = "run" /\ threads[1].pc = "read")

\* Nothing is issued before the first read.
SinkStartsAtFirstRead ==
    /\ Len(reads) = 0 => sink = <<>>
    /\ Len(reads) > 0 => reads[1].at = 0

\* C6: for every read that returned three bytes: if bit 6 of the first byte
\* is clear, no event is dispatched for it and exactly one flush is issued
\* before the next read; if bit 6 is set, no flush is issued for it.
C6_HeaderBitDecidesFlush ==
    \A i \in 1..Len(reads) :
      Full(reads[i]) =>
        IF Bit(reads[i].packet[1], 6) = 0
        THEN /\ SelectSeq(Segment(i), IsEvent) = <<>>
             /\ Len(SelectSeq(Segment(i), IsFlush)) <= 1
             /\ Completed(i) => Len(SelectSeq(Segment(i), IsFlush)) = 1
        ELSE SelectSeq(Segment(i), IsFlush) = <<>>

\* A chunk without the header bit was flushed and the loop has read again;
\* a chunk with the header bit was handled too.
C6_Witness ==
    /\ \E i \in 1..(Len(reads) - 1) :
         /\ Full(reads[i])
         /\ Bit(reads[i].packet[1], 6) = 0
         /\ Segment(i) = <<FlushCall>>
    /\ \E i \in 1..(Len(reads) - 1) :
         /\ Full(reads[i])
         /\ Bit(reads[i].packet[1], 6) = 1
         /\ Segment(i) # <<>>

\* The delta with low six bits from lo and bits 6 and 7 from the two low
\* bits of hi, read as an 8-bit two's-complement number.
ExpectedDelta(lo, hi) ==
    (lo % 64) + 64 * Bit(hi, 0) - 128 * Bit(hi, 1)

\* C7: for every chunk with bit 6 of byte 0 set, the dispatched deltaX is
\* the two's-complement reading of (byte1 & 0x3F) | ((byte0 & 0x03) << 6)
\* and deltaY that of (byte2 & 0x3F) | ((byte0 & 0x0C) << 4); both are in
\* -128..127 and do not change when bits 6 and 7 of bytes 1 and 2 are cleared.
C7_DeltasDecoded ==
    \A i \in 1..Len(reads) :
      (Full(reads[i]) /\ Bit(reads[i].packet[1], 6) = 1 /\ Completed(i)) =>
        LET b == reads[i].packet
            ev == SelectSeq(Segment(i), IsEvent)
        IN /\ Len(ev) = 1
           /\ ev[1].dx = ExpectedDelta(b[2], b[1])
           /\ ev[1].dy = ExpectedDelta(b[3], b[1] \div 4)
           /\ ev[1].dx \in -128..127
           /\ ev[1].dy \in -128..127
           /\ ev[1].dx = MOUSE_PACKET_POSX(<<b[1], b[2] % 64, b[3] % 64>>)
           /\ ev[1].dy = MOUSE_PACKET_POSY(<<b[1], b[2] % 64, b[3] % 64>>)

\* A chunk whose bytes 1 and 2 have bit 6 or 7 set was decoded to a negative
\* deltaX and a positive deltaY.
C7_Witness ==
    /\ Len(reads) = 1
    /\ Completed(1)
    /\ reads[1].packet[2] >= 128
    /\ reads[1].packet[3] >= 64
    /\ Len(sink) = 1
    /\ sink[1].k = "event"
    /\ sink[1].dx < 0
    /\ sink[1].dy > 0

\* C8 as stated: the chunk [0x42, 0x01, 0x02] is taken as a valid frame
\* and is dispatched with buttons = 0, deltaX = 1, deltaY = 2.
C8_ExampleAsStated ==
    \A i \in 1..Len(reads) :
      (Full(reads[i]) /\ reads[i].packet = <<66, 1, 2>> /\ Completed(i)) =>
        Segment(i) = <<[k |-> "event", dx |-> 1, dy |-> 2, buttons |-> 0]>>

\* C8 amended: the chunk [0x42, 0x01, 0x02] is taken as a valid frame and
\* is dispatched with buttons = 0, deltaX = -127, deltaY = 2 (bit 1 of
\* 0x42 is bit 7 of the X delta).
C8_ExampleDecoded ==
    \A i \in 1..Len(reads) :
      (Full(reads[i]) /\ reads[i].packet = <<66, 1, 2>> /\ Completed(i)) =>
        Segment(i) = <<[k |-> "event", dx |-> -127, dy |-> 2, buttons |-> 0]>>

\* The chunk [0x42, 0x01, 0x02] was read and handled.
C8_Witness ==
    \E i \in 1..Len(reads) :
      /\ Full(reads[i])
      /\ reads[i].packet = <<66, 1, 2>>
      /\ Completed(i)
      /\ Len(Segment(i)) = 1

\* C9: for every chunk with bit 6 of byte 0 set, the dispatched button mask
\* is LEFT (1) iff bit 5 of byte 0 is set plus RIGHT (2) iff bit 4 is set,
\* nothing else, whatever the other bits of the chunk are.
C9_ButtonsDecoded ==
    \A i \in 1..Len(reads) :
      (Full(reads[i]) /\ Bit(reads[i].packet[1], 6) = 1 /\ Completed(i)) =>
        LET b == reads[i].packet
            ev == SelectSeq(Segment(i), IsEvent)
        IN /\ Len(ev) = 1
           /\ ev[1].buttons = Bit(b[1], 5) + 2 * Bit(b[1], 4)
           /\ b[1] = 96 => ev[1].buttons = 1
           /\ b[1] = 80 => ev[1].buttons = 2
           /\ b[1] = 64 => ev[1].buttons = 0

\* A chunk with header and left bit only (0x60) was dispatched as LEFT, with
\* other bits of the chunk set.
C9_Witness ==
    /\ Len(reads) = 1
    /\ Completed(1)
    /\ reads[1].packet[1] = 96
    /\ reads[1].packet[2] = 255
    /\ Len(sink) = 1
    /\ sink[1].k = "event"
    /\ sink[1].buttons = 1

\* The event the HID system must receive for a chunk.
EventFor(packet) ==
    [k |-> "event", dx |-> MOUSE_PACKET_POSX(packet),
     dy |-> MOUSE_PACKET_POSY(packet), buttons |-> MOUSE_PACKET_BUTTONS(packet)]

\* C10: every read of three bytes with the header bit set has exactly one
\* event, the one decoded from its own chunk, dispatched after it and
\* before the next read returns; no other read has an event; so the events
\* reach the HID system in the order of the reads that produced them.
C10_OneEventPerValidChunkInOrder ==
    /\ SinkStartsAtFirstRead
    /\ \A i \in 1..Len(reads) :
         LET ev == SelectSeq(Segment(i), IsEvent) IN
         IF Full(reads[i]) /\ Bit(reads[i].packet[1], 6) = 1
         THEN /\ ev \in {<<>>, <<EventFor(reads[i].packet)>>}
              /\ Completed(i) => ev # <<>>
         ELSE ev = <<>>

\* Two different valid chunks were read one after the other and their two
\* different events were dispatched in that order, and a read that was not
\* a valid chunk came after them.
C10_Witness ==
    /\ Len(reads) >= 3
    /\ Full(reads[1]) /\ Full(reads[2])
    /\ Bit(reads[1].packet[1], 6) = 1
    /\ Bit(reads[2].packet[1], 6) = 1
    /\ EventFor(reads[1].packet) # EventFor(reads[2].packet)
    /\ ~Full(reads[3])
    /\ Completed(3)
    /\ sink = <<EventFor(reads[1].packet), EventFor(reads[2].packet)>>

\* The read returned success with fewer than three bytes.
Short(r) == r.st = kIOReturnSuccess /\ r.count < MOUSE_PACKET_LENGTH

\* The step is one of the polling loop, not one of stop().
LoopStep == calls' = calls

\* C11: a read of the polling loop that returns fewer than three bytes is
\* dropped: between it and the next read no event is dispatched and no flush
\* is issued, and the step that handles it raises nothing: the thread keeps
\* running and is back at the read.
C11_ShortReadDropped ==
    /\ [](\A i \in 1..Len(reads) : Short(reads[i]) => Segment(i) = <<>>)
    /\ [][\A w \in 1..Len(threads) :
            (/\ threads[w].state = "run"
             /\ threads[w].pc = "got"
             /\ Short(threads[w])
             /\ threads'[w] # threads[w]
             /\ LoopStep)
            => /\ threads'[w].state = "run"
               /\ threads'[w].pc = "read"
               /\ threads'[w].out = <<>>
               /\ sink' = sink
               /\ panicked' = panicked]_vars

\* A read of two bytes and a read of no byte were handled without a flush or
\* an event, and the loop has read again after each.
C11_Witness ==
    /\ \E i \in 1..(Len(reads) - 1) :
         Short(reads[i]) /\ reads[i].count = 2 /\ Segment(i) = <<>>
    /\ \E i \in 1..(Len(reads) - 1) :
         Short(reads[i]) /\ reads[i].count = 0 /\ Segment(i) = <<>>

(* -------------------- claims about release and stop -------------------- *)
\* The invocation called releasePort() on a port that was already released:
\* nobody owned it when the invocation was entered and its acquirePort()
\* was not granted, so the driver's previous release is still in effect.
ReleasedTwice ==
    /\ call.fn = "idle"
    /\ result.fn \in {"probe", "start"}
    /\ entry.port.owner = "none"
    /\ ~entry.port.active
    /\ Len(ops) > 0
    /\ ~AcquiredHere

\* C12: releasePort() called on a port that is already released is a no-op:
\* it issues no line deactivation and no releasePort call on the serial
\* stream, changes nothing on the port, and no call it makes fails.
C12_ReleaseIdempotent ==
    ReleasedTwice
    => /\ IssuedEvent("PD_E_ACTIVE") = {}
       /\ Issued("releasePort") = {}
       /\ port.owner = entry.port.owner
       /\ port.active = entry.port.active
       /\ \A i \in 2..Len(ops) : ops[i].ok

\* C13: stop() on a driver with no polling thread running (never started,
\* start failed, or already stopped) is a no-op: no thread is terminated,
\* no call is made on the serial stream, the port and the driver's members
\* are as before, and the kernel is unharmed.
C13_StopWithoutWorkerIsNoOp ==
    (After("stop") /\ entry.pollThread \notin entry.running)
    => /\ Running = entry.running
       /\ ops = <<>>
       /\ port = entry.port
       /\ pollThread = entry.pollThread
       /\ ~panicked

(* ------------------- claims about the detection sequence --------------- *)
\* C14: when the identification read succeeds but delivers no byte, the
\* invocation fails with a status of its own, different from the one
\* checkMouseId returns for a byte that was received and is not 0x4D.
C14_NoByteIsNotMismatch ==
    (After("probe") \/ After("start"))
    => \A i \in IdReads :
         ops[i].num = 0
         => /\ result.id # kIOReturnSuccess
            /\ result.id # IdStatus(TRUE, 1, 0)

\* A call as the claims name it: what is called, with which argument.
Step(method, ev, num, flags) ==
    [method |-> method, ev |-> ev, num |-> num, flags |-> flags]

StepOf(op) == Step(op.method, op.ev, op.num, op.flags)

\* The calls that set the required line configuration and activate the line.
ConfigureSteps ==
    << Step("executeEvent", "PD_E_DATA_RATE", 2 * 1200, {}),
       Step("executeEvent", "PD_E_DATA_SIZE", 2 * 7, {}),
       Step("executeEvent", "PD_RS232_E_STOP_BITS", 2 * 1, {}),
       Step("executeEvent", "PD_E_FLOW_CONTROL", 0, {"RTS", "DTR"}),
       Step("executeEvent", "PD_E_ACTIVE", 1, {}) >>

\* The receive-queue flush and the DTR toggle.
ToggleSteps ==
    << Step("executeEvent", "PD_E_RXQ_FLUSH", 0, {}),
       Step("executeEvent", "PD_E_FLOW_CONTROL", 0, {"RTS", "DTR"}),
       Step("executeEvent", "PD_E_FLOW_CONTROL", 0, {"RTS"}),
       Step("executeEvent", "PD_E_FLOW_CONTROL", 0, {"RTS", "DTR"}) >>

\* The 100 ms delay and the read of one byte.  The count a read reports is
\* not part of the call.
ReadSteps ==
    << Step("IOSleep", "none", 100, {}), Step("dequeueData", "none", 0, {}) >>

\* The step at position k of a detection sequence matches the call op.
Matches(op, step) ==
    StepOf(IF op.method = "dequeueData" THEN [op EXCEPT !.num = 0] ELSE op) = step

\* Calls the invocation made before the detection began: acquirePort, and
\* in probe() the four queries of getPortSettings.
DetStart == IF call.fn = "probe" THEN 5 ELSE 1

\* The detection (setupPort, checkMouseId) follows the sequence order: while
\* it is in progress every earlier call of the invocation has succeeded,
\* each call it issues is the next one of order, and it goes on exactly as
\* long as the calls succeed and order is not exhausted.
DetectionFollows(order) ==
    (call.phase \in {"setup", "id"} /\ ops' # ops)
       => LET n == Len(ops) - DetStart
              new == SubSeq(ops', Len(ops) + 1, Len(ops'))
          IN /\ n >= 0
             /\ \A i \in 1..Len(ops) : ops[i].ok
             /\ \A k \in 1..Len(new) :
                  /\ n + k <= Len(order)
                  /\ Matches(new[k], order[n + k])
             /\ (\E k \in 1..Len(new) : ~new[k].ok)
                => call'.phase \notin {"setup", "id"}
             /\ ((\A k \in 1..Len(new) : new[k].ok) /\ n + Len(new) < Len(order))
                => call'.phase \in {"setup", "id"}

\* C15 as stated: the detection issues flush, flow control, DTR deasserted,
\* flow control again, then the line configuration and the activation, then
\* the delay and the read, and stops at the first failing call.
C15_ConfiguresAfterToggle ==
    [][DetectionFollows(ToggleSteps \o ConfigureSteps \o ReadSteps)]_vars

\* C15 amended: the detection first sets the line configuration (1200 bit/s,
\* 7 data bits, 1 stop bit, RTS+DTR) and activates the line, then flushes
\* the receive queue, applies the flow control, deasserts DTR only, applies
\* the flow control again, waits 100 ms and reads one byte; it stops at the
\* first failing call without issuing a later one.
C15_ConfiguresBeforeToggle ==
    [][DetectionFollows(ConfigureSteps \o ToggleSteps \o ReadSteps)]_vars

\* A probe() has run the whole detection, every call succeeding, and a
\* mouse answered.
C15_Witness ==
    /\ After("probe")
    /\ result.ret = "this"
    /\ Len(ops) >= 16
    /\ \A k \in 1..11 : ops[5 + k].ok
    /\ Matches(ops[10], ConfigureSteps[5])
    /\ Matches(ops[13], ToggleSteps[3])
    /\ Matches(ops[16], ReadSteps[2])

(* -------------------- claims about failed acquisition ------------------ *)
\* The invocation's acquirePort() was refused.
AcquireFailed == Len(ops) > 0 /\ ops[1].method = "acquirePort" /\ ~ops[1].ok

\* C16: when acquirePort() fails in probe() or start(), the invocation makes
\* no further call on the serial stream: no configuration write, no line
\* deactivation, no releasePort, and the port is as it was.
C16_NothingAfterFailedAcquire ==
    AcquireFailed
    => /\ Len(ops) = 1
       /\ port = entry.port

\* start() obtained the port, the detection succeeded, and start() still
\* returned false: kernel_thread_start() failed.
SpawnFailed ==
    /\ After("start")
    /\ AcquiredHere
    /\ result.id = kIOReturnSuccess
    /\ result.ret = "false"

\* C17: when start() passes acquisition and detection and the polling thread
\* cannot be created, the line has been deactivated and then the ownership
\* released, no thread was created, and start() returned false.
C17_SpawnFailureReleases ==
    (SpawnFailed /\ ReleaseNotRefused)
    => /\ \E d \in IssuedEvent("PD_E_ACTIVE") : \E r \in Issued("releasePort") :
            ops[d].num = 0 /\ ops[d].ok /\ d < r
       /\ ~port.active
       /\ port.owner = "none"
       /\ Len(threads) = entry.nthreads
       /\ Running = entry.running
       /\ pollThread = entry.pollThread

(* ----------------------- claims about the worker ----------------------- *)
\* C18: whatever probe(), start() and stop() calls are made on the driver,
\* at most one polling thread runs at a time, and while a polling thread
\* runs the caller's thread makes no call on the serial stream: a thread
\* that ran when the invocation was entered and still runs has seen none.
C18_OneWorkerOwnsTransport ==
    /\ Cardinality(Running) <= 1
    /\ (Running \cap entry.running # {}) => ops = <<>>

\* C19: the polling thread never leaves its loop by itself.  It is always
\* either in the read or handling what the read returned; whatever that was
\* (a valid chunk, an invalid one, a short read, an error), the step that
\* handles it takes the thread back to the read; and a running thread stops
\* running only in a step of stop().
C19_WorkerEndsOnlyByStop ==
    /\ [](\A w \in Running : threads[w].pc \in {"read", "got"})
    /\ [][\A w \in 1..Len(threads) :
            threads[w].state = "run"
            => /\ (threads'[w].state # "run") => (~LoopStep /\ result'.fn = "stop")
               /\ (threads[w].pc = "got" /\ threads'[w] # threads[w] /\ LoopStep)
                  => threads'[w].pc = "read"
               /\ (threads[w].pc = "read" /\ threads'[w] # threads[w] /\ LoopStep)
                  => threads'[w].pc = "got"]_vars

\* The thread has handled a read error and a short read, one after the
\* other, and is in the read again.
C19_Witness ==
    /\ Len(reads) >= 2
    /\ reads[1].st = kIOReturnError
    /\ Short(reads[2])
    /\ threads[1].state = "run"
    /\ threads[1].pc = "read"
    /\ Completed(2)

(* ------------- claims about getPortSettings / setPortSettings ---------- *)
\* The four line parameters in the order the claim gives them.
FieldOrder ==
    <<"PD_E_DATA_RATE", "PD_E_DATA_SIZE", "PD_RS232_E_STOP_BITS", "PD_E_FLOW_CONTROL">>

\* The configuration whose first k fields (in that order) are those of a
\* and whose other fields are those of b.
Mixed(a, b, k) ==
    [rate |-> IF k >= 1 THEN a.rate ELSE b.rate,
     size |-> IF k >= 2 THEN a.size ELSE b.size,
     stop |-> IF k >= 3 THEN a.stop ELSE b.stop,
     flow |-> IF k >= 4 THEN a.flow ELSE b.flow]

\* The configuration setupPort() asks for.
Required == [rate |-> 2 * 1200, size |-> 2 * 7, stop |-> 2 * 1, flow |-> {"RTS", "DTR"}]

\* getPortSettings() in probe(): its queries are calls 2, 3, ... of the
\* invocation, one per field in the fixed order; only the last one issued
\* can have failed and nothing follows an unfinished run of successes; the
\* caller's four variables hold the port's values for the fields queried
\* with success and are untouched (still 0) for the others; after a failed
\* query probe() is on its failure path.
ReadsInOrder ==
    (call.fn = "probe" /\ AcquiredHere)
    => LET n == Cardinality(Issued("requestEvent"))
           good == Cardinality({i \in Issued("requestEvent") : ops[i].ok})
       IN /\ n <= 4
          /\ Issued("requestEvent") = 2..(n + 1)
          /\ \A j \in 1..n : ops[j + 1].ev = FieldOrder[j]
          /\ \A j \in 1..(n - 1) : ops[j + 1].ok
          /\ Len(ops) > n + 1 => (n = 4 \/ ~ops[n + 1].ok)
          /\ call.orig = Mixed(entry.port.cfg, ZeroCfg, good)
          /\ good < n => (call.phase \in {"restore", "release"} /\ call.ret = "NULL")

\* setPortSettings() in setupPort(): its writes follow the DetStart calls
\* made before, one per field in the fixed order with the required values;
\* as long as they succeed the port has the required value in the fields
\* written and its previous value in the others; when one fails the fields
\* written before it stay changed, that field and the later ones keep their
\* previous values, setupPort() is left and the next call is not the write
\* of the next field.
WritesInOrder ==
    (/\ call.fn \in {"probe", "start"}
     /\ Len(ops) > DetStart
     /\ \A i \in 1..DetStart : ops[i].ok)
    => LET last == IF Len(ops) < DetStart + 4 THEN Len(ops) ELSE DetStart + 4
           failed == {i \in (DetStart + 1)..last :
                        ~ops[i].ok /\ \A j \in (DetStart + 1)..(i - 1) : ops[j].ok}
       IN /\ \A i \in (DetStart + 1)..last :
               (\A j \in (DetStart + 1)..(i - 1) : ops[j].ok)
               => /\ StepOf(ops[i]) = ConfigureSteps[i - DetStart]
                  /\ ops[i].ev = FieldOrder[i - DetStart]
          /\ (failed = {} /\ Len(ops) = last)
             => port.cfg = Mixed(Required, entry.port.cfg, last - DetStart)
          /\ \A f \in failed :
               /\ Len(ops) = f
                  => /\ port.cfg = Mixed(Required, entry.port.cfg, f - DetStart - 1)
                     /\ call.phase # "setup"
               /\ (Len(ops) > f /\ f < DetStart + 4)
                  => ops[f + 1].ev # FieldOrder[f - DetStart + 1]

\* C20: getPortSettings and setPortSettings each go through data rate, data
\* size, stop bits, flow control in that order and stop at the first call
\* that fails, issuing no later one and sending their caller down its
\* failure path: a failed query leaves the later output variables unwritten,
\* a failed write leaves the earlier fields changed and the later ones at
\* their previous values.
C20_SettingsInOrderFailFast == ReadsInOrder /\ WritesInOrder

\* probe() read all four fields, then the write of the stop bits failed:
\* rate and size are changed, stop bits and flow control are as before.
C20_Witness ==
    /\ call.fn = "probe"
    /\ Len(ops) = 8
    /\ \A i \in 1..7 : ops[i].ok
    /\ ~ops[8].ok
    /\ call.orig = entry.port.cfg
    /\ port.cfg.rate = 2400
    /\ port.cfg.size = 14
    /\ port.cfg.stop = 4
    /\ port.cfg.flow = {"CTS"}

====
